---- MODULE Spec2Model ----
(***************************************************************************)
(* Model of the daily arXiv report pipeline: the date and category filters *)
(* (src/utils/filters.py), the keyword scorer (src/arxiv/parser.py) and    *)
(* their composition in scripts/run_daily_report.py.                       *)
(*                                                                         *)
(* Representation.                                                         *)
(*  - A paper is a Python dict: a TLA+ function from key names to values,  *)
(*    so that a key can be absent (k \notin DOMAIN paper).                 *)
(*  - Papers live in `heap` and lists hold references into it, because the *)
(*    code passes the same dict objects from stage to stage.               *)
(*  - Text (title, abstract, keyword, author name) is a sequence of        *)
(*    characters; lower() and the `in` substring test work on characters.  *)
(*  - A date string is the triple of the numbers written in it; strptime   *)
(*    validates it against the calendar and strftime writes it back.       *)
(*  - Scores are floats in the code.  The weights of the model are whole   *)
(*    numbers, on which float arithmetic is exact.                         *)
(***************************************************************************)
EXTENDS Integers, Sequences, FiniteSets, TLC

VARIABLES
    pc,              \* control point of the run / of the harness
    now,             \* the wall clock: [day |-> ordinal, tod |-> time of day]
    config,          \* config.json: [recent_days, categories, max_papers,
                     \* output_format, enabled], the keys present
    kw,              \* the ArxivParser attributes loaded from keywords.json
    results,         \* what the arXiv API yields to get_recent_papers
    heap,            \* the paper dicts, by reference
    papers,          \* list built by get_recent_papers (client.py:47)
    by_date,         \* filtered_papers of filter_by_date (filters.py:26)
    by_category,     \* filtered_papers of filter_by_category (filters.py:49)
    filtered_papers, \* filtered_papers of filter_papers_by_keywords (parser.py:113)
    unique_papers,   \* unique_papers of filter_duplicates (filters.py:68)
    selected_papers, \* selected_papers of main (run_daily_report.py:82)
    match,           \* the value match_keywords returned to the harness
    raised,          \* the exception that left the last call, or "none"
    ranked,          \* the list rank_papers_by_impact returned (citation.py:83)
    args,            \* the command line: [no_email |-> BOOLEAN]
    env,             \* the names of the environment variables that are set
    enabled,         \* EmailNotifier.enabled (email.py:17, 33)
    index,           \* position of the analysis loop (run_daily_report.py:87)
    pdf_data,        \* what get_pdf_content returned, iteration by iteration
    report_summary,  \* report_summary of main (run_daily_report.py:105)
    markdown_report, \* markdown_report of main (run_daily_report.py:109)
    files,           \* the output directory: file name |-> content
    outbox,          \* the messages the SMTP server accepted
    sent             \* what send_report_notification returned, None before

\* The variables of startup and of steps 8 to 13.
reporting == <<args, env, enabled, index, pdf_data, report_summary,
               markdown_report, files, outbox, sent>>

\* The variables that the selection stages and their harnesses leave alone.
others == <<ranked, reporting>>

vars == <<pc, now, config, kw, results, heap, papers, by_date, by_category,
          filtered_papers, unique_papers, selected_papers, match, raised,
          others>>

----------------------------------------------------------------------------
(* Bounds of the model.                                                    *)

MaxTextLen == 2        \* longest title / abstract of the scorer harness
MaxFilterInput == 2    \* longest list handed to the filter harness
MaxResults == 3        \* most results the arXiv API yields in a run
MaxDays == 2           \* largest recent_days
MaxMaxPapers == 2      \* largest max_papers

----------------------------------------------------------------------------
(* Python values.                                                          *)

None == [type |-> "NoneType"]

Range(s) == {s[i] : i \in DOMAIN s}

SeqsUpTo(S, n) == UNION {[1..k -> S] : k \in 0..n}

RECURSIVE Sum(_)
Sum(s) == IF s = <<>> THEN 0 ELSE Head(s) + Sum(Tail(s))

----------------------------------------------------------------------------
(* Calendar dates (datetime.date): proleptic Gregorian ordinals.           *)

IsLeap(y) == (y % 4 = 0) /\ ((y % 100 # 0) \/ (y % 400 = 0))

DaysInMonth(y, m) ==
    CASE m = 2 -> IF IsLeap(y) THEN 29 ELSE 28
      [] m \in {4, 6, 9, 11} -> 30
      [] OTHER -> 31

RECURSIVE DaysBeforeMonth(_, _)
DaysBeforeMonth(y, m) ==
    IF m <= 1 THEN 0 ELSE DaysBeforeMonth(y, m - 1) + DaysInMonth(y, m - 1)

DaysBeforeYear(y) ==
    LET p == y - 1 IN p * 365 + (p \div 4) - (p \div 100) + (p \div 400)

toordinal(y, m, d) == DaysBeforeYear(y) + DaysBeforeMonth(y, m) + d

\* A date string 'YYYY-MM-DD' is the numbers written in it.
DateStr(y, m, d) == [type |-> "str", y |-> y, m |-> m, d |-> d]

\* The calendar days the model's clock and papers range over.
FirstDay == toordinal(2025, 2, 25)
LastDay == toordinal(2025, 3, 3)
Days == FirstDay..LastDay

\* The year, month and day of every ordinal of Days.
Calendar ==
    [n \in Days |->
        CHOOSE s \in {DateStr(2025, m, d) : m \in 1..12, d \in 1..31} :
            /\ s.d <= DaysInMonth(s.y, s.m)
            /\ toordinal(s.y, s.m, s.d) = n]

\* date.strftime('%Y-%m-%d')
strftime(n) == Calendar[n]

\* datetime.strptime(v, '%Y-%m-%d').date(): TypeError unless v is a str,
\* ValueError unless it names a day of the calendar.
strptime(v) ==
    IF v.type # "str" THEN [exc |-> "TypeError", date |-> 0]
    ELSE IF v.m \notin 1..12 \/ v.d < 1 \/ v.d > DaysInMonth(v.y, v.m)
         THEN [exc |-> "ValueError", date |-> 0]
         ELSE [exc |-> "none", date |-> toordinal(v.y, v.m, v.d)]

----------------------------------------------------------------------------
(* PaperFilter.filter_by_date and PaperFilter.filter_by_category.          *)
(* Every operation returns its whole effect: the value returned (ret), the *)
(* exception that left it (raised), and the argument list and the heap as  *)
(* the call leaves them.                                                   *)

\* Mutant of date_step: the cutoff taken one day too early.
date_step_early(paper, date_cutoff) ==
    IF "published_date" \notin DOMAIN paper THEN "skip"
    ELSE LET p == strptime(paper.published_date) IN
         CASE p.exc = "ValueError" -> "skip"
           [] p.exc = "TypeError" -> "TypeError"
           [] OTHER -> IF p.date >= date_cutoff - 1 THEN "keep" ELSE "skip"

\* One iteration of the loop of filter_by_date (filters.py:28-34).
date_step(paper, date_cutoff) ==
    IF "published_date" \notin DOMAIN paper THEN "skip"        \* KeyError
    ELSE LET p == strptime(paper.published_date) IN
         CASE p.exc = "ValueError" -> "skip"
           [] p.exc = "TypeError" -> "TypeError"               \* not caught
           [] OTHER -> IF p.date >= date_cutoff THEN "keep" ELSE "skip"

RECURSIVE date_loop(_, _, _, _, _)
date_loop(ps, h, date_cutoff, i, acc) ==
    IF i > Len(ps) THEN [ret |-> acc, raised |-> "none"]
    ELSE LET o == date_step(h[ps[i]], date_cutoff) IN
         CASE o = "TypeError" -> [ret |-> <<>>, raised |-> "TypeError"]
           [] o = "keep" -> date_loop(ps, h, date_cutoff, i + 1, Append(acc, ps[i]))
           [] OTHER -> date_loop(ps, h, date_cutoff, i + 1, acc)

\* Mutant of filter_by_date: the rejected papers are removed from the input
\* list itself.
filter_by_date_inplace(ps, h, days, today) ==
    LET r == date_loop(ps, h, today - days, 1, <<>>) IN
        [ret |-> r.ret, raised |-> r.raised, papers |-> r.ret, heap |-> h]

filter_by_date(ps, h, days, today) ==
    LET date_cutoff == today - days
        r == date_loop(ps, h, date_cutoff, 1, <<>>)
    IN  [ret |-> r.ret, raised |-> r.raised, papers |-> ps, heap |-> h]

\* paper.get('categories', [])
get_categories(paper) ==
    IF "categories" \in DOMAIN paper THEN paper.categories ELSE <<>>

\* Mutant of filter_by_category: all() in place of any().
filter_by_category_all(ps, h, categories) ==
    LET keep(ref) == \A i \in DOMAIN categories :
                         categories[i] \in Range(get_categories(h[ref]))
    IN  [ret |-> SelectSeq(ps, keep), raised |-> "none",
         papers |-> ps, heap |-> h]

filter_by_category(ps, h, categories) ==
    LET keep(ref) == \E i \in DOMAIN categories :
                         categories[i] \in Range(get_categories(h[ref]))
    IN  [ret |-> SelectSeq(ps, keep), raised |-> "none",
         papers |-> ps, heap |-> h]

----------------------------------------------------------------------------
(* Text: str.lower() and the substring test `needle in hay`.               *)

LowerChar(c) ==
    CASE c = "A" -> "a"
      [] c = "B" -> "b"
      [] OTHER -> c

lower(s) == [i \in DOMAIN s |-> LowerChar(s[i])]

contains(hay, needle) ==
    \E i \in 0..(Len(hay) - Len(needle)) :
        SubSeq(hay, i + 1, i + Len(needle)) = needle

----------------------------------------------------------------------------
(* ArxivParser.match_keywords.                                             *)

AuthorBonus == 1         \* match_score += 1.0
ExclusionPenalty == 2    \* match_score -= 2.0

\* Mutant of tier_matches: `if` in place of `elif`, so that a keyword of the
\* title is looked up in the abstract too.
RECURSIVE tier_matches_both(_, _, _, _, _)
tier_matches_both(keywords, title, abstract, wf, tier_weight) ==
    IF keywords = <<>> THEN <<>>
    ELSE LET keyword == Head(keywords)
             rest == tier_matches_both(Tail(keywords), title, abstract, wf,
                                       tier_weight)
             in_title ==
                 IF contains(title, lower(keyword))
                 THEN <<[keyword |-> keyword, location |-> "title",
                         weight |-> wf.title_match * tier_weight]>>
                 ELSE <<>>
             in_abstract ==
                 IF contains(abstract, lower(keyword))
                 THEN <<[keyword |-> keyword, location |-> "abstract",
                         weight |-> wf.abstract_match * tier_weight]>>
                 ELSE <<>>
         IN  in_title \o in_abstract \o rest

\* Mutant of tier_matches: a title-hit weighs the title multiplier alone,
\* without the multiplier of its tier.
RECURSIVE tier_matches_flat_title(_, _, _, _, _)
tier_matches_flat_title(keywords, title, abstract, wf, tier_weight) ==
    IF keywords = <<>> THEN <<>>
    ELSE LET keyword == Head(keywords)
             rest == tier_matches_flat_title(Tail(keywords), title, abstract,
                                             wf, tier_weight)
         IN  IF contains(title, lower(keyword))
             THEN <<[keyword |-> keyword, location |-> "title",
                     weight |-> wf.title_match]>> \o rest
             ELSE IF contains(abstract, lower(keyword))
             THEN <<[keyword |-> keyword, location |-> "abstract",
                     weight |-> wf.abstract_match * tier_weight]>> \o rest
             ELSE rest

\* The loop over one keyword tier (parser.py:43-55 and 58-70): title first,
\* abstract only when the title does not hit.
RECURSIVE tier_matches(_, _, _, _, _)
tier_matches(keywords, title, abstract, wf, tier_weight) ==
    IF keywords = <<>> THEN <<>>
    ELSE LET keyword == Head(keywords)
             rest == tier_matches(Tail(keywords), title, abstract, wf, tier_weight)
         IN  IF contains(title, lower(keyword))
             THEN <<[keyword |-> keyword, location |-> "title",
                     weight |-> wf.title_match * tier_weight]>> \o rest
             ELSE IF contains(abstract, lower(keyword))
             THEN <<[keyword |-> keyword, location |-> "abstract",
                     weight |-> wf.abstract_match * tier_weight]>> \o rest
             ELSE rest

\* parser.py:73-75
excluded_matches(keywords, title, abstract) ==
    SelectSeq(keywords, LAMBDA k : contains(title, lower(k))
                                   \/ contains(abstract, lower(k)))

\* Mutant of author_matches: a substring test in place of the equality.
author_matches_substring(author_preferences, authors) ==
    SelectSeq(author_preferences,
              LAMBDA author : \E i \in DOMAIN authors :
                                  contains(lower(authors[i]), lower(author)))

\* parser.py:78-80
author_matches(author_preferences, authors) ==
    SelectSeq(author_preferences,
              LAMBDA author : \E i \in DOMAIN authors :
                                  lower(author) = lower(authors[i]))

\* Mutant of match_score: the bonus added for every matched author.
match_score_per_author(details) ==
    Sum([i \in DOMAIN details.primary_matches |->
            details.primary_matches[i].weight])
    + Sum([i \in DOMAIN details.secondary_matches |->
            details.secondary_matches[i].weight])
    + AuthorBonus * Len(details.author_matches)
    - (IF details.excluded_matches # <<>> THEN ExclusionPenalty ELSE 0)

\* Mutant of match_score: the penalty taken for every matched exclude keyword.
match_score_per_exclusion(details) ==
    Sum([i \in DOMAIN details.primary_matches |->
            details.primary_matches[i].weight])
    + Sum([i \in DOMAIN details.secondary_matches |->
            details.secondary_matches[i].weight])
    + (IF details.author_matches # <<>> THEN AuthorBonus ELSE 0)
    - ExclusionPenalty * Len(details.excluded_matches)

\* parser.py:83-99
match_score(details) ==
    Sum([i \in DOMAIN details.primary_matches |->
            details.primary_matches[i].weight])
    + Sum([i \in DOMAIN details.secondary_matches |->
            details.secondary_matches[i].weight])
    + (IF details.author_matches # <<>> THEN AuthorBonus ELSE 0)
    - (IF details.excluded_matches # <<>> THEN ExclusionPenalty ELSE 0)

NoDetails ==
    [primary_matches |-> <<>>, secondary_matches |-> <<>>,
     excluded_matches |-> <<>>, author_matches |-> <<>>]

\* Mutant of match_keywords: the score starts from the score a former call
\* stored on the paper.
match_keywords_accumulating(paper, K) ==
    IF {"title", "abstract"} \ DOMAIN paper # {}
    THEN [raised |-> "KeyError", score |-> 0, details |-> NoDetails]
    ELSE
    LET title == lower(paper.title)
        abstract == lower(paper.abstract)
        wf == K.weight_factors
        prim == tier_matches(K.primary_keywords, title, abstract, wf,
                             wf.primary_keyword_match)
        sec == tier_matches(K.secondary_keywords, title, abstract, wf,
                            wf.secondary_keyword_match)
        excl == excluded_matches(K.exclude_keywords, title, abstract)
    IN  IF "authors" \notin DOMAIN paper /\ K.author_preferences # <<>>
        THEN [raised |-> "KeyError", score |-> 0, details |-> NoDetails]
        ELSE
        LET auth == IF K.author_preferences = <<>> THEN <<>>
                    ELSE author_matches(K.author_preferences, paper.authors)
            details == [primary_matches |-> prim, secondary_matches |-> sec,
                        excluded_matches |-> excl, author_matches |-> auth]
        IN  [raised |-> "none",
             score |-> (IF "match_score" \in DOMAIN paper
                        THEN paper.match_score ELSE 0) + match_score(details),
             details |-> details]

match_keywords(paper, K) ==
    IF {"title", "abstract"} \ DOMAIN paper # {}
    THEN [raised |-> "KeyError", score |-> 0, details |-> NoDetails]
    ELSE
    LET title == lower(paper.title)
        abstract == lower(paper.abstract)
        wf == K.weight_factors
        prim == tier_matches(K.primary_keywords, title, abstract, wf,
                             wf.primary_keyword_match)
        sec == tier_matches(K.secondary_keywords, title, abstract, wf,
                            wf.secondary_keyword_match)
        excl == excluded_matches(K.exclude_keywords, title, abstract)
    IN  IF "authors" \notin DOMAIN paper /\ K.author_preferences # <<>>
        THEN [raised |-> "KeyError", score |-> 0, details |-> NoDetails]
        ELSE
        LET auth == IF K.author_preferences = <<>> THEN <<>>
                    ELSE author_matches(K.author_preferences, paper.authors)
            details == [primary_matches |-> prim, secondary_matches |-> sec,
                        excluded_matches |-> excl, author_matches |-> auth]
        IN  [raised |-> "none", score |-> match_score(details),
             details |-> details]

----------------------------------------------------------------------------
(* ArxivParser.filter_papers_by_keywords.                                  *)

\* paper['match_score'] = ...; paper['match_details'] = ...
with_match(paper, r) ==
    ("match_score" :> r.score) @@ ("match_details" :> r.details) @@ paper

\* Mutant of insert_desc: an element goes before the elements whose score
\* equals its own.
RECURSIVE insert_desc_unstable(_, _, _)
insert_desc_unstable(sorted, ref, h) ==
    IF sorted = <<>> THEN <<ref>>
    ELSE IF h[Head(sorted)].match_score > h[ref].match_score
         THEN <<Head(sorted)>> \o insert_desc_unstable(Tail(sorted), ref, h)
         ELSE <<ref>> \o sorted

\* list.sort(key=match_score, reverse=True): stable, so an element goes
\* after every element whose score is at least its own.
RECURSIVE insert_desc(_, _, _)
insert_desc(sorted, ref, h) ==
    IF sorted = <<>> THEN <<ref>>
    ELSE IF h[Head(sorted)].match_score >= h[ref].match_score
         THEN <<Head(sorted)>> \o insert_desc(Tail(sorted), ref, h)
         ELSE <<ref>> \o sorted

RECURSIVE sort_desc(_, _, _)
sort_desc(ps, h, acc) ==
    IF ps = <<>> THEN acc
    ELSE sort_desc(Tail(ps), h, insert_desc(acc, Head(ps), h))

\* Mutant of keywords_loop: `>` in place of `>=`.
RECURSIVE keywords_loop_strict(_, _, _, _, _)
keywords_loop_strict(ps, h, K, i, acc) ==
    IF i > Len(ps) THEN [ret |-> acc, raised |-> "none", heap |-> h]
    ELSE LET ref == ps[i]
             r == match_keywords(h[ref], K)
         IN  IF r.raised # "none"
             THEN [ret |-> <<>>, raised |-> r.raised, heap |-> h]
             ELSE IF r.score > K.minimum_match_score
             THEN keywords_loop_strict(ps,
                                       [h EXCEPT ![ref] = with_match(h[ref], r)],
                                       K, i + 1, Append(acc, ref))
             ELSE keywords_loop_strict(ps, h, K, i + 1, acc)

\* The loop of parser.py:115-122; a KeyError of match_keywords leaves it.
RECURSIVE keywords_loop(_, _, _, _, _)
keywords_loop(ps, h, K, i, acc) ==
    IF i > Len(ps) THEN [ret |-> acc, raised |-> "none", heap |-> h]
    ELSE LET ref == ps[i]
             r == match_keywords(h[ref], K)
         IN  IF r.raised # "none"
             THEN [ret |-> <<>>, raised |-> r.raised, heap |-> h]
             ELSE IF r.score >= K.minimum_match_score
             THEN keywords_loop(ps, [h EXCEPT ![ref] = with_match(h[ref], r)],
                                K, i + 1, Append(acc, ref))
             ELSE keywords_loop(ps, h, K, i + 1, acc)

filter_papers_by_keywords(ps, h, K) ==
    LET r == keywords_loop(ps, h, K, 1, <<>>) IN
        [ret |-> IF r.raised = "none" THEN sort_desc(r.ret, r.heap, <<>>)
                 ELSE <<>>,
         raised |-> r.raised, papers |-> ps, heap |-> r.heap]

----------------------------------------------------------------------------
(* PaperFilter.filter_duplicates and PaperFilter.limit_papers.             *)

\* Mutant of duplicates_loop: the papers themselves are remembered, so that
\* a paper with a seen id and another field is kept.
RECURSIVE duplicates_loop_by_paper(_, _, _, _, _)
duplicates_loop_by_paper(ps, h, i, seen_ids, acc) ==
    IF i > Len(ps) THEN [ret |-> acc, raised |-> "none"]
    ELSE IF "id" \notin DOMAIN h[ps[i]]
         THEN [ret |-> <<>>, raised |-> "KeyError"]
         ELSE IF h[ps[i]] \notin seen_ids
         THEN duplicates_loop_by_paper(ps, h, i + 1, seen_ids \cup {h[ps[i]]},
                                       Append(acc, ps[i]))
         ELSE duplicates_loop_by_paper(ps, h, i + 1, seen_ids, acc)

\* Mutant of duplicates_loop: a dropped paper's id is forgotten, so that a
\* third paper with that id is kept.
RECURSIVE duplicates_loop_forgetting(_, _, _, _, _)
duplicates_loop_forgetting(ps, h, i, seen_ids, acc) ==
    IF i > Len(ps) THEN [ret |-> acc, raised |-> "none"]
    ELSE IF "id" \notin DOMAIN h[ps[i]]
         THEN [ret |-> <<>>, raised |-> "KeyError"]
         ELSE IF h[ps[i]].id \notin seen_ids
         THEN duplicates_loop_forgetting(ps, h, i + 1,
                                         seen_ids \cup {h[ps[i]].id},
                                         Append(acc, ps[i]))
         ELSE duplicates_loop_forgetting(ps, h, i + 1,
                                         seen_ids \ {h[ps[i]].id}, acc)

\* The loop of filters.py:70-73.
RECURSIVE duplicates_loop(_, _, _, _, _)
duplicates_loop(ps, h, i, seen_ids, acc) ==
    IF i > Len(ps) THEN [ret |-> acc, raised |-> "none"]
    ELSE IF "id" \notin DOMAIN h[ps[i]]
         THEN [ret |-> <<>>, raised |-> "KeyError"]
         ELSE IF h[ps[i]].id \notin seen_ids
         THEN duplicates_loop(ps, h, i + 1, seen_ids \cup {h[ps[i]].id},
                              Append(acc, ps[i]))
         ELSE duplicates_loop(ps, h, i + 1, seen_ids, acc)

filter_duplicates(ps, h) ==
    LET r == duplicates_loop(ps, h, 1, {}, <<>>) IN
        [ret |-> r.ret, raised |-> r.raised, papers |-> ps, heap |-> h]

\* Mutant of limit_papers: papers[-limit:], the last `limit` papers.
limit_papers_last(ps, limit) ==
    LET start == IF limit < Len(ps) THEN Len(ps) - limit + 1 ELSE 1
    IN  [ret |-> SubSeq(ps, start, Len(ps)), raised |-> "none", papers |-> ps]

\* papers[:limit], with Python's reading of a negative limit.
limit_papers(ps, limit) ==
    LET stop == IF limit >= 0
                THEN (IF limit < Len(ps) THEN limit ELSE Len(ps))
                ELSE (IF Len(ps) + limit > 0 THEN Len(ps) + limit ELSE 0)
    IN  [ret |-> SubSeq(ps, 1, stop), raised |-> "none", papers |-> ps]

----------------------------------------------------------------------------
(* CitationAnalyzer.calculate_citation_velocity and rank_papers_by_impact. *)
(* A float is the exact fraction [num, den] with den > 0: the counts and   *)
(* day differences are whole numbers, and two impact scores that differ as *)
(* fractions differ as floats.                                             *)

CitationCountWeight == 7       \* 0.7, in tenths
CitationVelocityWeight == 3    \* 0.3, in tenths
CitationVelocityFactor == 10   \* * 10

Frac(n, d) == [num |-> n, den |-> d]
frac_ge(a, b) == a.num * b.den >= b.num * a.den
frac_eq(a, b) == a.num * b.den = b.num * a.den

\* citation.py:46-57, for one paper: the velocity it is given.
citation_velocity(paper, today) ==
    IF "citation_count" \in DOMAIN paper /\ "published_date" \in DOMAIN paper
    THEN LET pub_date == strptime(paper.published_date) IN
         IF pub_date.exc # "none" THEN Frac(0, 1)
         ELSE LET diff == today - pub_date.date
                  days_since_pub == IF diff > 1 THEN diff ELSE 1
              IN  Frac(paper.citation_count, days_since_pub)
    ELSE Frac(0, 1)

\* The papers are updated in place and the list given is returned.
calculate_citation_velocity(ps, h, today) ==
    [ret |-> ps, raised |-> "none", papers |-> ps,
     heap |-> [r \in DOMAIN h |->
                 IF r \in Range(ps)
                 THEN ("citation_velocity" :> citation_velocity(h[r], today))
                      @@ h[r]
                 ELSE h[r]]]

\* Mutant of impact_score: the velocity term without its factor 10.
impact_score_unscaled(paper) ==
    LET citation_count == IF "citation_count" \in DOMAIN paper
                          THEN paper.citation_count ELSE 0
        velocity == IF "citation_velocity" \in DOMAIN paper
                    THEN paper.citation_velocity ELSE Frac(0, 1)
    IN  Frac(CitationCountWeight * citation_count * velocity.den
                 + CitationVelocityWeight * velocity.num,
             10 * velocity.den)

\* citation.py:76-80: (0.7 * citation_count) + (0.3 * citation_velocity * 10)
impact_score(paper) ==
    LET citation_count == IF "citation_count" \in DOMAIN paper
                          THEN paper.citation_count ELSE 0
        velocity == IF "citation_velocity" \in DOMAIN paper
                    THEN paper.citation_velocity ELSE Frac(0, 1)
    IN  Frac(CitationCountWeight * citation_count * velocity.den
                 + CitationVelocityWeight * CitationVelocityFactor
                   * velocity.num,
             10 * velocity.den)

\* sorted(papers, key=impact_score, reverse=True): stable.
RECURSIVE insert_by_impact(_, _, _)
insert_by_impact(sorted, ref, h) ==
    IF sorted = <<>> THEN <<ref>>
    ELSE IF frac_ge(h[Head(sorted)].impact_score, h[ref].impact_score)
         THEN <<Head(sorted)>> \o insert_by_impact(Tail(sorted), ref, h)
         ELSE <<ref>> \o sorted

RECURSIVE sort_by_impact(_, _, _)
sort_by_impact(ps, h, acc) ==
    IF ps = <<>> THEN acc
    ELSE sort_by_impact(Tail(ps), h, insert_by_impact(acc, Head(ps), h))

rank_papers_by_impact(ps, h) ==
    LET scored == [r \in DOMAIN h |->
                      IF r \in Range(ps)
                      THEN ("impact_score" :> impact_score(h[r])) @@ h[r]
                      ELSE h[r]]
    IN  [ret |-> sort_by_impact(ps, scored, <<>>), raised |-> "none",
         papers |-> ps, heap |-> scored]

----------------------------------------------------------------------------
(* The collaborators of steps 8 to 13: ArxivParser.enrich_paper_data,      *)
(* ArxivClient.get_pdf_content, GeminiClient, MarkdownReportGenerator and  *)
(* EmailNotifier.  What the network answers is an input of each operation. *)

\* The environment variables the components read (gemini.py:18,
\* email.py:23-27); EMAIL_SMTP_PORT has a default.
EmailCredentials ==
    {"EMAIL_SMTP_SERVER", "EMAIL_SENDER", "EMAIL_PASSWORD", "EMAIL_RECIPIENT"}
Credentials == {"GOOGLE_API_KEY"} \cup EmailCredentials

\* parser.py:176-191; an abstract of one sentence without indicator phrase
\* is its own key finding.
enrich_paper_data(paper) ==
    ("key_findings" :> <<paper.abstract>>)
    @@ ("formatted_authors" :>
            IF Len(paper.authors) > 3
            THEN <<paper.authors[1], " et al.">> ELSE paper.authors)
    @@ ("short_id" :> paper.id)
    @@ ("arxiv_url" :> <<"https://arxiv.org/abs", paper.id>>)
    @@ paper

\* Mutant of get_pdf_content: without the except clause.
get_pdf_content_uncaught(response) ==
    IF response.exc # "none"
    THEN [ret |-> <<>>, raised |-> response.exc]
    ELSE [ret |-> response.content, raised |-> "none"]

\* client.py:126-132: any exception of the download is caught and b'' is
\* returned; response is what httpx.get and raise_for_status do.
get_pdf_content(response) ==
    IF response.exc # "none"
    THEN [ret |-> <<>>, raised |-> "none"]
    ELSE [ret |-> response.content, raised |-> "none"]

\* What the download of a PDF may do.
Responses ==
    { [exc |-> "none", content |-> <<"%PDF">>],
      [exc |-> "none", content |-> <<>>],
      [exc |-> "ConnectError", content |-> <<>>],
      [exc |-> "HTTPStatusError", content |-> <<>>] }

\* gemini.py:35-78 and 80-116: the text the model answers to the prompt of
\* method `by` about paper, or the exception of generate_content, which no
\* statement catches.
analyze_paper(by, paper, outcome) ==
    IF outcome # "ok" THEN [ret |-> None, raised |-> outcome]
    ELSE [ret |-> [by |-> by, id |-> paper.id], raised |-> "none"]

\* gemini.py:118-160
generate_report_summary(ps, h, outcome) ==
    IF \E i \in DOMAIN ps : "formatted_authors" \notin DOMAIN h[ps[i]]
    THEN [ret |-> None, raised |-> "KeyError"]
    ELSE IF outcome # "ok" THEN [ret |-> None, raised |-> outcome]
    ELSE [ret |-> [by |-> "generate_report_summary",
                   ids |-> [i \in DOMAIN ps |-> h[ps[i]].id]],
          raised |-> "none"]

\* What a call of the language model may do.
Outcomes == {"ok", "APIError"}

\* markdown.py:20-64: the section of one paper, with its analysis if it has
\* one.
generate_paper_section(paper) ==
    IF "analysis" \in DOMAIN paper
    THEN [id |-> paper.id, title |-> paper.title, abstract |-> paper.abstract,
          analysis |-> paper.analysis]
    ELSE [id |-> paper.id, title |-> paper.title, abstract |-> paper.abstract]

\* markdown.py:66-106, without the date of the header.
generate_daily_report(ps, h, summary) ==
    IF \E i \in DOMAIN ps : "arxiv_url" \notin DOMAIN h[ps[i]]
    THEN [ret |-> None, raised |-> "KeyError"]
    ELSE [ret |-> [summary |-> summary,
                   contents |-> [i \in DOMAIN ps |-> h[ps[i]].id],
                   sections |-> [i \in DOMAIN ps |->
                                    generate_paper_section(h[ps[i]])]],
          raised |-> "none"]

\* markdown.py:108-129: the file is opened for writing and written.
save_report(fs, markdown, filename) ==
    [ret |-> filename, raised |-> "none",
     files |-> (filename :> markdown) @@ fs]

\* markdown.py:131-218: the HTML file beside the Markdown file, or "" when
\* the markdown package cannot be imported.
convert_to_html(fs, markdown_path, importable) ==
    IF ~importable THEN [ret |-> "", raised |-> "none", files |-> fs]
    ELSE [ret |-> "report.html", raised |-> "none",
          files |-> ("report.html" :> [html |-> fs[markdown_path]]) @@ fs]

\* Mutant of send_report_email: without the except clause.
send_report_email_uncaught(is_enabled, summary, full_report, smtp) ==
    IF ~is_enabled THEN [ret |-> FALSE, raised |-> "none", message |-> None]
    ELSE IF summary = None
    THEN [ret |-> FALSE, raised |-> "TypeError", message |-> None]
    ELSE IF smtp # "ok"
    THEN [ret |-> FALSE, raised |-> smtp, message |-> None]
    ELSE [ret |-> TRUE, raised |-> "none",
          message |-> [summary |-> summary, full_report |-> full_report]]

\* email.py:35-89: False when the notifier is disabled or when anything in
\* the try block raises; smtp is what the SMTP server does.
send_report_email(is_enabled, summary, full_report, smtp) ==
    IF ~is_enabled THEN [ret |-> FALSE, raised |-> "none", message |-> None]
    ELSE IF summary = None \/ smtp # "ok"
    THEN [ret |-> FALSE, raised |-> "none", message |-> None]
    ELSE [ret |-> TRUE, raised |-> "none",
          message |-> [summary |-> summary, full_report |-> full_report]]

\* email.py:91-127; include_full_report is configured true.
send_report_notification(is_enabled, summary, fs, markdown_report_path, smtp) ==
    LET full_report == IF markdown_report_path \in DOMAIN fs
                       THEN fs[markdown_report_path] ELSE None
    IN  send_report_email(is_enabled, summary, full_report, smtp)

\* A Python bool.
Bool(b) == [type |-> "bool", value |-> b]

\* What the SMTP server may do.
SmtpOutcomes == {"ok", "SMTPException"}

----------------------------------------------------------------------------
(* ArxivClient.get_recent_papers.                                          *)

\* datetime >= datetime
datetime_ge(a, b) == a.day > b.day \/ (a.day = b.day /\ a.tod >= b.tod)

\* result.entry_id.split('/')[-1]; an entry id is its '/'-separated parts.
short_id(entry_id) == entry_id[Len(entry_id)]

\* The dict of client.py:56-69.
paper_of(result) ==
    [id |-> short_id(result.entry_id), title |-> result.title,
     authors |-> result.authors, abstract |-> result.summary,
     pdf_url |-> result.pdf_url,
     published_date |-> strftime(result.published.day),
     categories |-> result.categories]

\* What client.results(search) does in place of yielding a result when the
\* arXiv API cannot be reached.
SourceFailure == [exc |-> "HTTPError"]

\* client.py:24-73.  rs is what client.results(search) yields, in order; an
\* exception of the iteration leaves the loop and the function, which has no
\* except clause.
get_recent_papers(rs, clock, recent_days) ==
    IF \E i \in DOMAIN rs : rs[i] = SourceFailure
    THEN [ret |-> <<>>, raised |-> SourceFailure.exc, heap |-> <<>>]
    ELSE
    LET date_filter == [day |-> clock.day - recent_days, tod |-> clock.tod]
        kept == SelectSeq(rs, LAMBDA result :
                              datetime_ge(result.published, date_filter))
        h == [i \in DOMAIN kept |-> paper_of(kept[i])]
    IN  [ret |-> [i \in DOMAIN kept |-> i], raised |-> "none", heap |-> h]

----------------------------------------------------------------------------
(* Inputs of the model.                                                    *)

Today == toordinal(2025, 3, 1)

Chars == {"a", "b", "A"}
Texts == SeqsUpTo(Chars, MaxTextLen)

\* keywords.json.  weight_factors is the JSON object as loaded: besides the
\* four multipliers match_keywords reads it may hold further entries (here an
\* author bonus and an exclusion penalty), which the code never reads.
WeightFactors ==
    { [title_match |-> 2, abstract_match |-> 1, primary_keyword_match |-> 2,
       secondary_keyword_match |-> 1, author_bonus |-> 1,
       exclusion_penalty |-> 2],
      [title_match |-> 3, abstract_match |-> 2, primary_keyword_match |-> 3,
       secondary_keyword_match |-> 2, author_bonus |-> 2,
       exclusion_penalty |-> 1],
      [title_match |-> 1, abstract_match |-> 2, primary_keyword_match |-> 2,
       secondary_keyword_match |-> 1, author_bonus |-> 1,
       exclusion_penalty |-> 2] }

KeywordLists ==
    { [primary_keywords |-> << <<"a", "b">> >>,
       secondary_keywords |-> << <<"b">> >>,
       exclude_keywords |-> <<>>,
       author_preferences |-> <<>>],
      [primary_keywords |-> << <<"A">>, <<"b", "a">> >>,
       secondary_keywords |-> << <<"b">>, <<"a", "a">> >>,
       exclude_keywords |-> << <<"b", "b">> >>,
       author_preferences |-> << <<"a">> >>],
      [primary_keywords |-> << <<"a", "B">> >>,
       secondary_keywords |-> <<>>,
       exclude_keywords |-> << <<"b", "a">>, <<"B">> >>,
       author_preferences |-> << <<"A", "b">>, <<"b">> >>] }

Taxonomies ==
    { [primary_keywords |-> k.primary_keywords,
       secondary_keywords |-> k.secondary_keywords,
       exclude_keywords |-> k.exclude_keywords,
       author_preferences |-> k.author_preferences,
       weight_factors |-> wf,
       minimum_match_score |-> m] :
      k \in KeywordLists, wf \in WeightFactors, m \in {2} }

AuthorLists ==
    { <<>>, << <<"a">> >>, << <<"A">> >>, << <<"a", "b">> >>,
      << <<"b", "a">>, <<"B">> >>, << <<"a", "B">>, <<"b">> >>,
      << <<"a">>, <<"b", "b">> >> }

Identifiers == {"2501.00001v1", "2501.00002v1"}

PdfUrl(id) == <<"http://arxiv.org/pdf", id>>

CategoryLists == { <<>>, <<"cs.RO">>, <<"cs.CV", "cs.AI">> }
AllowLists == { <<>>, <<"cs.RO">>, <<"cs.AI", "cs.RO">> }

\* The dict get_recent_papers builds (client.py:56-69), without the keys no
\* stage of the pipeline reads (updated_date, comment, journal_ref, doi,
\* primary_category).
Paper(id, title, authors, abstract, published_date, categories) ==
    [id |-> id, title |-> title, authors |-> authors, abstract |-> abstract,
     pdf_url |-> PdfUrl(id), published_date |-> published_date,
     categories |-> categories]

\* The dict d without key k.
Without(d, k) == [x \in DOMAIN d \ {k} |-> d[x]]

Refs(h) == [i \in DOMAIN h |-> i]

NoMatch == [raised |-> "none", score |-> 0, details |-> NoDetails]

\* Before the analysis loop: nothing ranked, fetched, reported or sent.
NothingReported ==
    /\ ranked = <<>>
    /\ index = 1
    /\ pdf_data = <<>>
    /\ report_summary = None
    /\ markdown_report = None
    /\ files = <<>>
    /\ outbox = <<>>
    /\ sent = None

\* The harnesses and the runs of steps 1 to 7 start with the components
\* initialised under a complete environment.
OthersInit ==
    /\ NothingReported
    /\ args = [no_email |-> FALSE]
    /\ env = Credentials
    /\ enabled = FALSE

----------------------------------------------------------------------------
(* Harness of the scorer: a call of match_keywords on one paper, and a     *)
(* second call on the same paper once the first result is stored on it.    *)

ScorePapers ==
    { Paper("2501.00001v1", t, au, ab, strftime(Today), <<"cs.RO">>) :
      t \in Texts, ab \in Texts, au \in AuthorLists }

InitScore ==
    /\ pc = "call"
    /\ now = [day |-> Today, tod |-> 0]
    /\ config = [recent_days |-> 0, categories |-> <<>>, max_papers |-> 1]
    /\ kw \in Taxonomies
    /\ results = <<>>
    /\ \E p \in ScorePapers : heap = <<p>>
    /\ papers = <<1>>
    /\ by_date = <<>> /\ by_category = <<>> /\ filtered_papers = <<>>
    /\ unique_papers = <<>> /\ selected_papers = <<>>
    /\ match = NoMatch
    /\ raised = "none"
    /\ OthersInit

CallMatchKeywords ==
    /\ pc \in {"call", "stored"}
    /\ LET r == match_keywords(heap[1], kw) IN
           /\ match' = r
           /\ raised' = r.raised
    /\ pc' = IF pc = "call" THEN "returned" ELSE "returned again"
    /\ UNCHANGED others
    /\ UNCHANGED <<now, config, kw, results, heap, papers, by_date,
                   by_category, filtered_papers, unique_papers,
                   selected_papers>>

\* What filter_papers_by_keywords does with a result (parser.py:118-120).
StoreMatch ==
    /\ pc = "returned"
    /\ raised = "none"
    /\ match.score >= kw.minimum_match_score
    /\ heap' = [heap EXCEPT ![1] = with_match(heap[1], match)]
    /\ pc' = "stored"
    /\ UNCHANGED others
    /\ UNCHANGED <<now, config, kw, results, papers, by_date, by_category,
                   filtered_papers, unique_papers, selected_papers, match,
                   raised>>

NextScore == CallMatchKeywords \/ StoreMatch

SpecScore == InitScore /\ [][NextScore]_vars

----------------------------------------------------------------------------
(* Harness of the filters: one call of filter_by_date or of                *)
(* filter_by_category on a list whose records may be malformed.            *)

FilterDates ==
    { strftime(Today - MaxDays - 1), strftime(Today - MaxDays),
      strftime(Today), strftime(Today + 1),
      DateStr(2025, 2, 30), None }

FilterPapers ==
    LET full == { Paper("2501.00001v1", <<"a">>, <<>>, <<"b">>, d, c) :
                  d \in FilterDates, c \in CategoryLists }
    IN  full \cup { Without(p, "published_date") : p \in full }
             \cup { Without(p, "categories") : p \in full }

InitFilter ==
    /\ pc = "call"
    /\ now = [day |-> Today, tod |-> 0]
    /\ config \in [recent_days : 0..MaxDays, categories : AllowLists,
                   max_papers : {1}]
    /\ kw = CHOOSE k \in Taxonomies : TRUE
    /\ results = <<>>
    /\ heap \in SeqsUpTo(FilterPapers, MaxFilterInput)
    /\ papers = Refs(heap)
    /\ by_date = <<>> /\ by_category = <<>> /\ filtered_papers = <<>>
    /\ unique_papers = <<>> /\ selected_papers = <<>>
    /\ match = NoMatch
    /\ raised = "none"
    /\ OthersInit

CallFilterByDate ==
    /\ pc = "call"
    /\ LET r == filter_by_date(papers, heap, config.recent_days, now.day) IN
           /\ by_date' = r.ret
           /\ raised' = r.raised
           /\ papers' = r.papers
           /\ heap' = r.heap
    /\ pc' = "filter_by_date"
    /\ UNCHANGED others
    /\ UNCHANGED <<now, config, kw, results, by_category, filtered_papers,
                   unique_papers, selected_papers, match>>

CallFilterByCategory ==
    /\ pc = "call"
    /\ LET r == filter_by_category(papers, heap, config.categories) IN
           /\ by_category' = r.ret
           /\ raised' = r.raised
           /\ papers' = r.papers
           /\ heap' = r.heap
    /\ pc' = "filter_by_category"
    /\ UNCHANGED others
    /\ UNCHANGED <<now, config, kw, results, by_date, filtered_papers,
                   unique_papers, selected_papers, match>>

NextFilter == CallFilterByDate \/ CallFilterByCategory

SpecFilter == InitFilter /\ [][NextFilter]_vars

----------------------------------------------------------------------------
(* Harness of the citation ranking: rank_papers_by_impact on a list, with  *)
(* or without calculate_citation_velocity on that list before.             *)

MaxCitations == 2      \* largest citation count

CitedPapers ==
    LET dated == { Paper("2501.00001v1", <<"a">>, <<>>, <<"b">>, d,
                         <<"cs.RO">>) :
                   d \in { strftime(Today - x) : x \in 0..MaxDays }
                          \cup { strftime(Today + 1), DateStr(2025, 2, 30),
                                 None } }
        cited == { ("citation_count" :> c) @@ p :
                   c \in 0..MaxCitations, p \in dated }
    IN  cited \cup { Without(p, "published_date") : p \in cited }
              \cup { p \in dated : p.published_date = strftime(Today - 1) }

InitRank ==
    /\ pc = "call"
    /\ now = [day |-> Today, tod |-> 0]
    /\ config = [recent_days |-> 0, categories |-> <<>>, max_papers |-> 1]
    /\ kw = CHOOSE k \in Taxonomies : TRUE
    /\ results = <<>>
    /\ heap \in SeqsUpTo(CitedPapers, MaxFilterInput)
    /\ papers = Refs(heap)
    /\ by_date = <<>> /\ by_category = <<>> /\ filtered_papers = <<>>
    /\ unique_papers = <<>> /\ selected_papers = <<>>
    /\ match = NoMatch
    /\ raised = "none"
    /\ OthersInit

CallCalculateCitationVelocity ==
    /\ pc = "call"
    /\ LET r == calculate_citation_velocity(papers, heap, now.day) IN
           /\ papers' = r.ret
           /\ heap' = r.heap
           /\ raised' = r.raised
    /\ pc' = "calculate_citation_velocity"
    /\ UNCHANGED reporting
    /\ UNCHANGED <<now, config, kw, results, by_date, by_category,
                   filtered_papers, unique_papers, selected_papers, match,
                   ranked>>

CallRankPapersByImpact ==
    /\ pc \in {"call", "calculate_citation_velocity"}
    /\ LET r == rank_papers_by_impact(papers, heap) IN
           /\ ranked' = r.ret
           /\ papers' = r.papers
           /\ heap' = r.heap
           /\ raised' = r.raised
    /\ pc' = IF pc = "call" THEN "rank_papers_by_impact"
             ELSE "rank_papers_by_impact of velocities"
    /\ UNCHANGED reporting
    /\ UNCHANGED <<now, config, kw, results, by_date, by_category,
                   filtered_papers, unique_papers, selected_papers, match>>

NextRank == CallCalculateCitationVelocity \/ CallRankPapersByImpact

SpecRank == InitRank /\ [][NextRank]_vars

----------------------------------------------------------------------------
(* The run of scripts/run_daily_report.py: main, steps 1 to 7.             *)

EntryId(id) == <<"http:", "", "arxiv.org", "abs", id>>

RunIdentifiers == Identifiers \cup {"2501.00003v1"}

\* Title and abstract pairs: under RunTaxonomy the first scores 6, the
\* second 2 (the minimum score) and the third 1.
BestText == [title |-> <<"A", "b">>, summary |-> <<"a">>]
FairText == [title |-> <<"B">>, summary |-> <<"a">>]
PoorText == [title |-> <<"a">>, summary |-> <<"b">>]

Result(id, text, published, categories) ==
    [entry_id |-> EntryId(id), title |-> text.title, authors |-> <<>>,
     summary |-> text.summary, pdf_url |-> PdfUrl(id),
     published |-> published, categories |-> categories]

\* What the arXiv API may yield: any identifier with a text that qualifies,
\* published today in an allowed category; and results below the minimum
\* score, at the edges of the date window, after today, or outside the
\* allowed categories.
RunResults ==
    { Result(id, t, [day |-> Today, tod |-> 0], <<"cs.RO">>) :
          id \in RunIdentifiers, t \in {BestText, FairText} }
    \cup { Result("2501.00002v1", PoorText, [day |-> Today, tod |-> 0],
                  <<"cs.RO">>),
           Result("2501.00001v1", BestText, [day |-> Today - 1, tod |-> 0],
                  <<"cs.RO">>),
           Result("2501.00002v1", BestText, [day |-> Today - 1, tod |-> 1],
                  <<"cs.RO">>),
           Result("2501.00003v1", BestText, [day |-> Today + 1, tod |-> 0],
                  <<"cs.CV", "cs.RO">>),
           Result("2501.00001v1", BestText, [day |-> Today, tod |-> 1],
                  <<"cs.CV", "cs.AI">>) }

RunTaxonomy ==
    CHOOSE k \in Taxonomies :
        /\ k.primary_keywords = << <<"a", "b">> >>
        /\ k.weight_factors.title_match = 2

RunConfigs ==
    [recent_days : {1}, categories : {<<"cs.RO">>},
     max_papers : 1..MaxMaxPapers]

Init ==
    /\ pc = "get_recent_papers"
    /\ now = [day |-> Today, tod |-> 1]
    /\ config \in RunConfigs
    /\ kw = RunTaxonomy
    /\ results \in SeqsUpTo(RunResults, MaxResults)
    /\ heap = <<>>
    /\ papers = <<>> /\ by_date = <<>> /\ by_category = <<>>
    /\ filtered_papers = <<>> /\ unique_papers = <<>>
    /\ selected_papers = <<>>
    /\ match = NoMatch
    /\ raised = "none"
    /\ OthersInit

After(r, next) == IF r.raised = "none" THEN next ELSE "crashed"

\* 1. recent_papers = arxiv_client.get_recent_papers()
GetRecentPapers ==
    /\ pc = "get_recent_papers"
    /\ LET r == get_recent_papers(results, now, config.recent_days) IN
           /\ papers' = r.ret
           /\ heap' = r.heap
           /\ raised' = r.raised
           /\ pc' = After(r, "filter_by_date")
    /\ UNCHANGED others
    /\ UNCHANGED <<now, config, kw, results, by_date, by_category,
                   filtered_papers, unique_papers, selected_papers, match>>

\* 2. filter_by_date reads the clock again: the day may have changed.
FilterByDate ==
    /\ pc = "filter_by_date"
    /\ \E today \in {now.day, now.day + 1} :
           /\ now' = [now EXCEPT !.day = today]
           /\ LET r == filter_by_date(papers, heap, config.recent_days, today) IN
                  /\ by_date' = r.ret
                  /\ papers' = r.papers
                  /\ heap' = r.heap
                  /\ raised' = r.raised
                  /\ pc' = After(r, "filter_by_category")
    /\ UNCHANGED others
    /\ UNCHANGED <<config, kw, results, by_category, filtered_papers,
                   unique_papers, selected_papers, match>>

\* 3. filter_by_category
FilterByCategory ==
    /\ pc = "filter_by_category"
    /\ LET r == filter_by_category(by_date, heap, config.categories) IN
           /\ by_category' = r.ret
           /\ by_date' = r.papers
           /\ heap' = r.heap
           /\ raised' = r.raised
           /\ pc' = After(r, "filter_papers_by_keywords")
    /\ UNCHANGED others
    /\ UNCHANGED <<now, config, kw, results, papers, filtered_papers,
                   unique_papers, selected_papers, match>>

\* 4. filter_papers_by_keywords
FilterPapersByKeywords ==
    /\ pc = "filter_papers_by_keywords"
    /\ LET r == filter_papers_by_keywords(by_category, heap, kw) IN
           /\ filtered_papers' = r.ret
           /\ by_category' = r.papers
           /\ heap' = r.heap
           /\ raised' = r.raised
           /\ pc' = After(r, "filter_duplicates")
    /\ UNCHANGED others
    /\ UNCHANGED <<now, config, kw, results, papers, by_date, unique_papers,
                   selected_papers, match>>

\* Mutant of FilterDuplicates: the list fetched, in place of the list the
\* keyword stage returned, is deduplicated.
FilterDuplicatesOfFetched ==
    /\ pc = "filter_duplicates"
    /\ LET r == filter_duplicates(papers, heap) IN
           /\ unique_papers' = r.ret
           /\ heap' = r.heap
           /\ raised' = r.raised
           /\ pc' = After(r, "limit_papers")
    /\ UNCHANGED others
    /\ UNCHANGED <<now, config, kw, results, papers, by_date, by_category,
                   filtered_papers, selected_papers, match>>

\* 6. filter_duplicates
FilterDuplicates ==
    /\ pc = "filter_duplicates"
    /\ LET r == filter_duplicates(filtered_papers, heap) IN
           /\ unique_papers' = r.ret
           /\ filtered_papers' = r.papers
           /\ heap' = r.heap
           /\ raised' = r.raised
           /\ pc' = After(r, "limit_papers")
    /\ UNCHANGED others
    /\ UNCHANGED <<now, config, kw, results, papers, by_date, by_category,
                   selected_papers, match>>

\* 7. limit_papers
LimitPapers ==
    /\ pc = "limit_papers"
    /\ LET r == IF "max_papers" \in DOMAIN config
                THEN limit_papers(unique_papers, config.max_papers)
                ELSE [ret |-> <<>>, raised |-> "KeyError",
                      papers |-> unique_papers]
       IN  /\ selected_papers' = r.ret
           /\ unique_papers' = r.papers
           /\ raised' = r.raised
           /\ pc' = After(r, "selected")
    /\ UNCHANGED others
    /\ UNCHANGED <<now, config, kw, results, heap, papers, by_date,
                   by_category, filtered_papers, match>>

Next ==
    \/ GetRecentPapers
    \/ FilterByDate
    \/ FilterByCategory
    \/ FilterPapersByKeywords
    \/ FilterDuplicates
    \/ LimitPapers

Spec == Init /\ [][Next]_vars

----------------------------------------------------------------------------
(* The whole run of scripts/run_daily_report.py: startup, steps 1 to 7 as  *)
(* above, and steps 8 to 13.                                               *)

MaxReportResults == 2    \* most results of a run that is followed to its end

ReportResults ==
    { Result(id, BestText, [day |-> Today, tod |-> 0], <<"cs.RO">>) :
          id \in Identifiers }

\* config.json as loaded: complete, or without one of the keys the run
\* reads.
ReportConfigs ==
    LET complete == [recent_days : {1}, categories : {<<"cs.RO">>},
                     max_papers : {MaxMaxPapers},
                     output_format : {<<"markdown">>, <<"markdown", "html">>},
                     enabled : BOOLEAN]
    IN  complete \cup { Without(c, k) :
                          c \in complete,
                          k \in {"recent_days", "max_papers", "output_format",
                                 "enabled"} }

InitReport ==
    /\ pc = "startup"
    /\ now = [day |-> Today, tod |-> 1]
    /\ config \in ReportConfigs
    /\ kw = RunTaxonomy
    /\ results \in SeqsUpTo(ReportResults \cup {SourceFailure},
                            MaxReportResults)
    /\ heap = <<>>
    /\ papers = <<>> /\ by_date = <<>> /\ by_category = <<>>
    /\ filtered_papers = <<>> /\ unique_papers = <<>>
    /\ selected_papers = <<>>
    /\ match = NoMatch
    /\ raised = "none"
    /\ NothingReported
    /\ args \in [no_email : BOOLEAN]
    /\ env \in { Credentials, Credentials \ {"GOOGLE_API_KEY"},
                  Credentials \ {"EMAIL_PASSWORD"} }
    /\ enabled = FALSE

\* run_daily_report.py:33-52: the configuration is loaded and the components
\* are constructed, in this order: ArxivClient, ArxivParser, GeminiClient,
\* MarkdownReportGenerator, EmailNotifier, CitationAnalyzer.
Startup ==
    /\ pc = "startup"
    /\ LET exc == IF {"categories", "recent_days"} \ DOMAIN config # {}
                  THEN "KeyError"
                  ELSE IF "GOOGLE_API_KEY" \notin env THEN "ValueError"
                  ELSE IF "enabled" \notin DOMAIN config THEN "KeyError"
                  ELSE "none"
       IN  /\ raised' = exc
           /\ pc' = IF exc = "none" THEN "get_recent_papers" ELSE "crashed"
           /\ enabled' = IF exc = "none"
                         THEN config.enabled /\ EmailCredentials \subseteq env
                         ELSE enabled
    /\ UNCHANGED <<now, config, kw, results, heap, papers, by_date,
                   by_category, filtered_papers, unique_papers,
                   selected_papers, match, ranked, args, env, index, pdf_data,
                   report_summary, markdown_report, files, outbox, sent>>

\* Mutant of AnalyzePaper: the selected papers are taken last to first.
AnalyzePaperBackwards ==
    /\ pc = "selected"
    /\ index <= Len(selected_papers)
    /\ \E response \in Responses, outcome \in Outcomes :
           LET ref == selected_papers[Len(selected_papers) - index + 1]
               paper == enrich_paper_data(heap[ref])
               pdf == get_pdf_content(response)
               r == IF pdf.raised # "none"
                    THEN [ret |-> None, raised |-> pdf.raised]
                    ELSE IF pdf.ret # <<>>
                    THEN analyze_paper("analyze_paper_from_pdf", paper, outcome)
                    ELSE analyze_paper("analyze_paper_from_abstract", paper,
                                       outcome)
           IN  /\ pdf_data' = IF pdf.raised = "none"
                              THEN Append(pdf_data, pdf.ret) ELSE pdf_data
               /\ heap' = [heap EXCEPT ![ref] =
                              IF r.raised = "none"
                              THEN ("analysis" :> r.ret) @@ paper ELSE paper]
               /\ raised' = r.raised
               /\ pc' = After(r, "selected")
               /\ index' = IF r.raised = "none" THEN index + 1 ELSE index
    /\ UNCHANGED <<now, config, kw, results, papers, by_date, by_category,
                   filtered_papers, unique_papers, selected_papers, match,
                   ranked, args, env, enabled, report_summary,
                   markdown_report, files, outbox, sent>>

\* 8. One iteration of the analysis loop (run_daily_report.py:87-101).
AnalyzePaper ==
    /\ pc = "selected"
    /\ index <= Len(selected_papers)
    /\ \E response \in Responses, outcome \in Outcomes :
           LET ref == selected_papers[index]
               paper == enrich_paper_data(heap[ref])
               pdf == get_pdf_content(response)
               r == IF pdf.raised # "none"
                    THEN [ret |-> None, raised |-> pdf.raised]
                    ELSE IF pdf.ret # <<>>
                    THEN analyze_paper("analyze_paper_from_pdf", paper, outcome)
                    ELSE analyze_paper("analyze_paper_from_abstract", paper,
                                       outcome)
           IN  /\ pdf_data' = IF pdf.raised = "none"
                              THEN Append(pdf_data, pdf.ret) ELSE pdf_data
               /\ heap' = [heap EXCEPT ![ref] =
                              IF r.raised = "none"
                              THEN ("analysis" :> r.ret) @@ paper ELSE paper]
               /\ raised' = r.raised
               /\ pc' = After(r, "selected")
               /\ index' = IF r.raised = "none" THEN index + 1 ELSE index
    /\ UNCHANGED <<now, config, kw, results, papers, by_date, by_category,
                   filtered_papers, unique_papers, selected_papers, match,
                   ranked, args, env, enabled, report_summary,
                   markdown_report, files, outbox, sent>>

\* 9. generate_report_summary
GenerateReportSummary ==
    /\ pc = "selected"
    /\ index > Len(selected_papers)
    /\ \E outcome \in Outcomes :
           LET r == generate_report_summary(selected_papers, heap, outcome) IN
               /\ report_summary' = r.ret
               /\ raised' = r.raised
               /\ pc' = After(r, "generate_daily_report")
    /\ UNCHANGED <<now, config, kw, results, heap, papers, by_date,
                   by_category, filtered_papers, unique_papers,
                   selected_papers, match, ranked, args, env, enabled, index,
                   pdf_data, markdown_report, files, outbox, sent>>


\* 10. generate_daily_report
GenerateDailyReport ==
    /\ pc = "generate_daily_report"
    /\ LET r == generate_daily_report(selected_papers, heap, report_summary) IN
           /\ markdown_report' = r.ret
           /\ raised' = r.raised
           /\ pc' = After(r, "save_report")
    /\ UNCHANGED <<now, config, kw, results, heap, papers, by_date,
                   by_category, filtered_papers, unique_papers,
                   selected_papers, match, ranked, args, env, enabled, index,
                   pdf_data, report_summary, files, outbox, sent>>

\* 11. save_report
SaveReport ==
    /\ pc = "save_report"
    /\ LET r == save_report(files, markdown_report, "report.md") IN
           /\ files' = r.files
           /\ raised' = r.raised
           /\ pc' = After(r, "convert_to_html")
    /\ UNCHANGED <<now, config, kw, results, heap, papers, by_date,
                   by_category, filtered_papers, unique_papers,
                   selected_papers, match, ranked, args, env, enabled, index,
                   pdf_data, report_summary, markdown_report, outbox, sent>>

\* 12. convert_to_html, if 'html' in config['report']['output_format']
ConvertToHtml ==
    /\ pc = "convert_to_html"
    /\ \E importable \in BOOLEAN :
           LET r == IF "output_format" \notin DOMAIN config
                    THEN [ret |-> "", raised |-> "KeyError", files |-> files]
                    ELSE IF "html" \in Range(config.output_format)
                    THEN convert_to_html(files, "report.md", importable)
                    ELSE [ret |-> "", raised |-> "none", files |-> files]
           IN  /\ files' = r.files
               /\ raised' = r.raised
               /\ pc' = After(r, "send_report_notification")
    /\ UNCHANGED <<now, config, kw, results, heap, papers, by_date,
                   by_category, filtered_papers, unique_papers,
                   selected_papers, match, ranked, args, env, enabled, index,
                   pdf_data, report_summary, markdown_report, outbox, sent>>

\* 13. send_report_notification, if not args.no_email and
\* config['email']['enabled']; then main returns.
SendReportNotification ==
    /\ pc = "send_report_notification"
    /\ \E smtp \in SmtpOutcomes :
           IF ~args.no_email /\ config.enabled
           THEN LET r == send_report_notification(enabled, report_summary,
                                                  files, "report.md", smtp)
                IN  /\ sent' = Bool(r.ret)
                    /\ outbox' = IF r.ret THEN Append(outbox, r.message)
                                 ELSE outbox
                    /\ raised' = r.raised
                    /\ pc' = After(r, "done")
           ELSE /\ pc' = "done"
                /\ UNCHANGED <<sent, outbox, raised>>
    /\ UNCHANGED <<now, config, kw, results, heap, papers, by_date,
                   by_category, filtered_papers, unique_papers,
                   selected_papers, match, ranked, args, env, enabled, index,
                   pdf_data, report_summary, markdown_report, files>>

NextReport ==
    \/ Startup
    \/ GetRecentPapers
    \/ FilterByDate
    \/ FilterByCategory
    \/ FilterPapersByKeywords
    \/ FilterDuplicates
    \/ LimitPapers
    \/ AnalyzePaper
    \/ GenerateReportSummary
    \/ GenerateDailyReport
    \/ SaveReport
    \/ ConvertToHtml
    \/ SendReportNotification

SpecReport == InitReport /\ [][NextReport]_vars

----------------------------------------------------------------------------
(* Claims about the filters, checked under SpecFilter.                     *)

RECURSIVE IsSubsequence(_, _)
IsSubsequence(a, b) ==
    IF a = <<>> THEN TRUE
    ELSE IF b = <<>> THEN FALSE
    ELSE IF Head(a) = Head(b) THEN IsSubsequence(Tail(a), Tail(b))
    ELSE IsSubsequence(a, Tail(b))

\* The date strings of the days of a set of ordinals.
DateStrings(S) == {strftime(n) : n \in S}

\* The paper carries a well-formed date that falls in the set of days S.
DatedIn(paper, S) ==
    /\ "published_date" \in DOMAIN paper
    /\ paper.published_date \in DateStrings(S)

DateCutoff == now.day - config.recent_days

\* C2 as stated: every candidate filter_by_date returns is dated within
\* [today - windowDays, today], and the result is a subsequence of the input.
C2_WindowBothEnds ==
    (pc = "filter_by_date" /\ raised = "none") =>
        /\ IsSubsequence(by_date, papers)
        /\ \A i \in DOMAIN by_date :
               DatedIn(heap[by_date[i]], DateCutoff..now.day)

\* C2 as amended: every candidate filter_by_date returns is dated on or after
\* today - windowDays (the lower bound is inclusive, there is no upper bound),
\* and the result is a subsequence of the input.
C2_WindowLowerBound ==
    pc = "filter_by_date" =>
        /\ IsSubsequence(by_date, papers)
        /\ \A i \in DOMAIN by_date :
               DatedIn(heap[by_date[i]], DateCutoff..LastDay)

\* A candidate dated after today survived while one dated the day before
\* today - windowDays was dropped.
C2_Witness ==
    /\ pc = "filter_by_date" /\ raised = "none"
    /\ \E i \in DOMAIN by_date :
           DatedIn(heap[by_date[i]], {now.day + 1})
    /\ \E i \in DOMAIN papers :
           /\ DatedIn(heap[papers[i]], {DateCutoff - 1})
           /\ papers[i] \notin Range(by_date)

\* The date field is absent, null or not a date of the calendar.
MalformedDate(paper) == ~DatedIn(paper, Days)

\* C3: filter_by_date never raises on a candidate whose date field is absent,
\* null or unparseable; such a candidate is dropped and every other candidate
\* dated on or after the cutoff is still returned.
C3_MalformedDateDropped ==
    pc = "filter_by_date" =>
        /\ raised = "none"
        /\ \A i \in DOMAIN papers :
               /\ MalformedDate(heap[papers[i]]) => papers[i] \notin Range(by_date)
               /\ DatedIn(heap[papers[i]], DateCutoff..now.day)
                      => papers[i] \in Range(by_date)

\* The candidate shares a category with the allow-list.
SharesCategory(paper, categories) ==
    /\ "categories" \in DOMAIN paper
    /\ Range(paper.categories) \cap Range(categories) # {}

\* C4: filter_by_category returns, in input order, exactly the candidates
\* whose category set meets the allow-list; a candidate with an empty or
\* absent category set is excluded.
C4_CategoryIntersection ==
    pc = "filter_by_category" =>
        /\ raised = "none"
        /\ by_category =
               SelectSeq(papers,
                         LAMBDA ref : SharesCategory(heap[ref], config.categories))
        /\ \A i \in DOMAIN by_category :
               /\ "categories" \in DOMAIN heap[by_category[i]]
               /\ heap[by_category[i]].categories # <<>>

\* One candidate was kept while one with no categories key was dropped.
C4_Witness ==
    /\ pc = "filter_by_category"
    /\ by_category # <<>>
    /\ \E i \in DOMAIN papers :
           /\ papers[i] \notin Range(by_category)
           /\ "categories" \notin DOMAIN heap[papers[i]]

\* C5: a call of filter_by_date or filter_by_category leaves its input list
\* and every candidate record unchanged, and returns the survivors in their
\* input order.
C5_FiltersPure ==
    [][pc = "call" =>
          /\ papers' = papers
          /\ heap' = heap
          /\ IsSubsequence(by_date', papers)
          /\ IsSubsequence(by_category', papers)]_vars

\* A call returned two candidates, so that their order shows.
C5_Witness ==
    \/ pc = "filter_by_date" /\ Len(by_date) >= 2
    \/ pc = "filter_by_category" /\ Len(by_category) >= 2

----------------------------------------------------------------------------
(* Claims about match_keywords, checked under SpecScore.                   *)

\* needle occurs in hay: hay = pre \o needle \o post for some pre and post.
IsSubstring(needle, hay) ==
    \E i \in 0..Len(hay), j \in 0..Len(hay) :
        i <= j /\ SubSeq(hay, i + 1, j) = needle

\* Two texts are equal up to the case of their characters.
SameIgnoringCase(a, b) ==
    /\ Len(a) = Len(b)
    /\ \A i \in DOMAIN a : LowerChar(a[i]) = LowerChar(b[i])

InTitle(k) == IsSubstring(lower(k), lower(heap[1].title))
InAbstract(k) == IsSubstring(lower(k), lower(heap[1].abstract))

\* The evidence a tier must hold for keyword k: one title-hit, else one
\* abstract-hit, else nothing.
TierEvidenceOk(matches, keywords, tier_weight) ==
    /\ \A i \in DOMAIN matches : matches[i].keyword \in Range(keywords)
    /\ \A k \in Range(keywords) :
           LET es == {i \in DOMAIN matches : matches[i].keyword = k} IN
           IF InTitle(k)
           THEN /\ Cardinality(es) = 1
                /\ \A i \in es :
                       /\ matches[i].location = "title"
                       /\ matches[i].weight =
                              kw.weight_factors.title_match * tier_weight
           ELSE IF InAbstract(k)
           THEN /\ Cardinality(es) = 1
                /\ \A i \in es :
                       /\ matches[i].location = "abstract"
                       /\ matches[i].weight =
                              kw.weight_factors.abstract_match * tier_weight
           ELSE es = {}

\* C6: match_keywords records at most one evidence entry per primary or
\* secondary keyword: a title-hit if the keyword is in the title, otherwise an
\* abstract-hit if it is in the abstract, otherwise none.
C6_TitleBeforeAbstract ==
    pc = "returned" =>
        /\ TierEvidenceOk(match.details.primary_matches, kw.primary_keywords,
                          kw.weight_factors.primary_keyword_match)
        /\ TierEvidenceOk(match.details.secondary_matches,
                          kw.secondary_keywords,
                          kw.weight_factors.secondary_keyword_match)

\* A keyword found in both title and abstract was recorded once, as a
\* title-hit, and another keyword was recorded as an abstract-hit.
C6_Witness ==
    /\ pc = "returned"
    /\ \E k \in Range(kw.primary_keywords) : InTitle(k) /\ InAbstract(k)
    /\ \E i \in DOMAIN match.details.secondary_matches :
           match.details.secondary_matches[i].location = "abstract"

\* The weight keyword k of a tier contributes to the score.
HitWeight(k, tier_weight) ==
    IF InTitle(k) THEN kw.weight_factors.title_match * tier_weight
    ELSE IF InAbstract(k) THEN kw.weight_factors.abstract_match * tier_weight
    ELSE 0

RECURSIVE TierWeight(_, _)
TierWeight(keywords, tier_weight) ==
    IF keywords = <<>> THEN 0
    ELSE HitWeight(Head(keywords), tier_weight)
         + TierWeight(Tail(keywords), tier_weight)

KeywordWeight ==
    TierWeight(kw.primary_keywords, kw.weight_factors.primary_keyword_match)
    + TierWeight(kw.secondary_keywords,
                 kw.weight_factors.secondary_keyword_match)

AuthorMatched ==
    \E a \in Range(kw.author_preferences) :
        \E i \in DOMAIN heap[1].authors :
            SameIgnoringCase(a, heap[1].authors[i])

ExcludeMatched ==
    \E k \in Range(kw.exclude_keywords) : InTitle(k) \/ InAbstract(k)

\* C7 as stated: the score is the sum of the hit weights, plus the author
\* bonus configured in the taxonomy if a preferred author matched, minus the
\* exclusion penalty configured in the taxonomy if an exclude keyword matched.
C7_ConfiguredBonusAndPenalty ==
    pc = "returned" =>
        match.score = KeywordWeight
            + (IF AuthorMatched THEN kw.weight_factors.author_bonus ELSE 0)
            - (IF ExcludeMatched THEN kw.weight_factors.exclusion_penalty
               ELSE 0)

\* C7 as amended: the score is the sum of the hit weights, plus 1.0 once if a
\* preferred author matched, minus 2.0 once if an exclude keyword matched,
\* whatever the taxonomy configures.
C7_FixedBonusAndPenalty ==
    pc = "returned" =>
        match.score = KeywordWeight
            + (IF AuthorMatched THEN AuthorBonus ELSE 0)
            - (IF ExcludeMatched THEN ExclusionPenalty ELSE 0)

\* Two preferred authors and two exclude keywords matched a candidate with a
\* keyword hit, under a taxonomy that configures another bonus and penalty.
C7_Witness ==
    /\ pc = "returned"
    /\ Len(match.details.author_matches) >= 2
    /\ Len(match.details.excluded_matches) >= 2
    /\ match.details.primary_matches # <<>>
    /\ kw.weight_factors.author_bonus # AuthorBonus
    /\ kw.weight_factors.exclusion_penalty # ExclusionPenalty

\* The evidence of the keyword tiers and of the authors, without locations
\* of exclusions.
OtherEvidence(m) ==
    <<m.details.primary_matches, m.details.secondary_matches,
      m.details.author_matches>>

\* C8: a candidate that matches n >= 1 exclude keywords scores exactly the
\* exclusion penalty below the same candidate without an exclude-match,
\* whatever n is.
C8_ExclusionDominance ==
    (pc = "returned" /\ match.details.excluded_matches # <<>>) =>
        /\ match.score =
               match_keywords(heap[1],
                              [kw EXCEPT !.exclude_keywords = <<>>]).score
               - ExclusionPenalty
        /\ \A ab \in Texts :
               LET other == match_keywords([heap[1] EXCEPT !.abstract = ab], kw)
               IN  (other.details.excluded_matches = <<>>
                    /\ OtherEvidence(other) = OtherEvidence(match))
                       => match.score = other.score - ExclusionPenalty

\* The candidate matched two exclude keywords, and a version of it with
\* another abstract and the same other evidence matches none.
C8_Witness ==
    /\ pc = "returned"
    /\ Len(match.details.excluded_matches) >= 2
    /\ \E ab \in Texts :
           LET other == match_keywords([heap[1] EXCEPT !.abstract = ab], kw)
           IN  /\ other.details.excluded_matches = <<>>
               /\ OtherEvidence(other) = OtherEvidence(match)

\* C9: a preferred author is recorded iff its name equals, case ignored, the
\* name of one of the candidate's authors; a name that is only a proper
\* substring of an author name, or the reverse, is not recorded, and without
\* a recorded author there is no bonus.
C9_AuthorExactMatch ==
    pc = "returned" =>
        /\ \A a \in Range(kw.author_preferences) :
               a \in Range(match.details.author_matches)
                   <=> \E i \in DOMAIN heap[1].authors :
                           SameIgnoringCase(a, heap[1].authors[i])
        /\ Range(match.details.author_matches)
               \subseteq Range(kw.author_preferences)
        /\ match.score =
               match_keywords(heap[1],
                              [kw EXCEPT !.author_preferences = <<>>]).score
               + (IF AuthorMatched THEN AuthorBonus ELSE 0)

\* A preferred name is a proper substring of an author's name, an author's
\* name a proper substring of a preferred name, and nothing was recorded.
C9_Witness ==
    /\ pc = "returned"
    /\ match.details.author_matches = <<>>
    /\ \E a \in Range(kw.author_preferences) :
           \E i \in DOMAIN heap[1].authors :
               /\ Len(a) < Len(heap[1].authors[i])
               /\ IsSubstring(lower(a), lower(heap[1].authors[i]))
    /\ \E a \in Range(kw.author_preferences) :
           \E i \in DOMAIN heap[1].authors :
               /\ Len(heap[1].authors[i]) < Len(a)
               /\ IsSubstring(lower(heap[1].authors[i]), lower(a))

\* The evidence of a scoring apart from the entry of primary keyword k.
EvidenceBut(m, k) ==
    <<SelectSeq(m.details.primary_matches, LAMBDA e : e.keyword # k),
      m.details.secondary_matches, m.details.excluded_matches,
      m.details.author_matches>>

\* The titles that make primary keyword k, which the candidate's title does
\* not hold, a title-hit and leave all other evidence as it is.
TitlesAdding(k) ==
    IF InTitle(k) THEN {}
    ELSE { t \in Texts :
             /\ IsSubstring(lower(k), lower(t))
             /\ EvidenceBut(match_keywords([heap[1] EXCEPT !.title = t], kw),
                            k) = EvidenceBut(match, k) }

\* C11 as stated: for every candidate, taxonomy and primary keyword k, the
\* candidate with its title changed so that k becomes a title-hit, all else
\* equal, never scores lower than the candidate without that title-hit.
C11_TitleHitMonotone ==
    pc = "returned" =>
        \A k \in Range(kw.primary_keywords) : \A t \in TitlesAdding(k) :
            match_keywords([heap[1] EXCEPT !.title = t], kw).score
                >= match.score

\* C11 as amended: the same, for a taxonomy whose title multiplier is not
\* below its abstract multiplier and whose multipliers are not negative.
C11_TitleHitMonotoneIfTitleOutranks ==
    (/\ pc = "returned"
     /\ kw.weight_factors.title_match >= kw.weight_factors.abstract_match
     /\ kw.weight_factors.abstract_match >= 0
     /\ kw.weight_factors.primary_keyword_match >= 0) =>
        \A k \in Range(kw.primary_keywords) : \A t \in TitlesAdding(k) :
            match_keywords([heap[1] EXCEPT !.title = t], kw).score
                >= match.score

\* A primary keyword was an abstract-hit of the scored candidate, a title
\* makes it a title-hit with all other evidence equal, and the title
\* multiplier outranks the abstract multiplier.
C11_Witness ==
    /\ pc = "returned"
    /\ kw.weight_factors.title_match > kw.weight_factors.abstract_match
    /\ \E k \in Range(kw.primary_keywords) :
           /\ InAbstract(k)
           /\ TitlesAdding(k) # {}
           /\ \E t \in TitlesAdding(k) :
                  match_keywords([heap[1] EXCEPT !.title = t], kw).score
                      > match.score

\* C12: match_keywords is a function of the candidate's title, abstract and
\* authors and of the taxonomy alone: a call leaves the candidate and the
\* taxonomy as they are, and a second call on the same candidate, made after
\* the pipeline stored the first result on it, returns the same score and
\* evidence.
C12_Deterministic ==
    [][/\ (pc' \in {"returned", "returned again"} /\ pc' # pc)
           => /\ heap' = heap
              /\ kw' = kw
       /\ pc' = "stored"
           => /\ heap'[1].title = heap[1].title
              /\ heap'[1].abstract = heap[1].abstract
              /\ heap'[1].authors = heap[1].authors
              /\ kw' = kw
       /\ (pc = "stored" /\ pc' = "returned again")
           => /\ match'.score = match.score
              /\ match'.details = match.details]_vars

\* The second call returned, for a candidate that holds a stored score above
\* zero and was matched on a keyword, an exclusion and an author.
C12_Witness ==
    /\ pc = "returned again"
    /\ "match_score" \in DOMAIN heap[1]
    /\ heap[1].match_score > 0
    /\ match.details.primary_matches # <<>>
    /\ match.details.excluded_matches # <<>>
    /\ match.details.author_matches # <<>>

----------------------------------------------------------------------------
(* Claims about the citation ranking, checked under SpecRank.              *)

\* citationCount / max(1, daysSincePublication), and 0 for a candidate that
\* lacks a citation count or a usable publication date.
VelocityOf(paper) ==
    IF /\ "citation_count" \in DOMAIN paper
       /\ "published_date" \in DOMAIN paper
       /\ paper.published_date \in DateStrings(Days)
    THEN LET days == now.day - toordinal(paper.published_date.y,
                                         paper.published_date.m,
                                         paper.published_date.d)
         IN  Frac(paper.citation_count, IF days >= 1 THEN days ELSE 1)
    ELSE Frac(0, 1)

\* 0.7 x citationCount + 3.0 x velocity, in tenths over the velocity's
\* denominator.
ImpactOf(paper, velocity) ==
    Frac(7 * (IF "citation_count" \in DOMAIN paper
              THEN paper.citation_count ELSE 0) * velocity.den
         + 30 * velocity.num,
         10 * velocity.den)

Ranked == pc \in {"rank_papers_by_impact", "rank_papers_by_impact of velocities"}

IsPermutation(a, b) ==
    /\ Len(a) = Len(b)
    /\ Range(a) = Range(b)
    /\ \A i, j \in DOMAIN a : a[i] = a[j] => i = j

ImpactNonIncreasing ==
    \A i, j \in DOMAIN ranked :
        i < j => frac_ge(heap[ranked[i]].impact_score,
                         heap[ranked[j]].impact_score)

----------------------------------------------------------------------------
(* Claims about the selection pipeline, checked under Spec.                *)

Score(ref) == match_keywords(heap[ref], kw).score

NonIncreasing(ps) ==
    \A i, j \in DOMAIN ps : i < j => Score(ps[i]) >= Score(ps[j])

\* C10: filter_papers_by_keywords returns exactly the candidates whose score
\* is at least the minimum acceptance score, a score equal to it included, in
\* non-increasing order of score.
C10_ThresholdAndOrder ==
    pc = "filter_duplicates" =>
        LET kept == {ref \in Range(by_category) :
                         Score(ref) >= kw.minimum_match_score}
        IN  /\ Range(filtered_papers) = kept
            /\ Len(filtered_papers) = Cardinality(kept)
            /\ NonIncreasing(filtered_papers)

\* A candidate scoring exactly the minimum was kept behind a higher-scoring
\* one that came after it in the input, and a lower-scoring one was dropped.
C10_Witness ==
    /\ pc = "filter_duplicates"
    /\ \E i \in DOMAIN filtered_papers :
           Score(filtered_papers[i]) = kw.minimum_match_score
    /\ \E i \in DOMAIN by_category : by_category[i] \notin Range(filtered_papers)
    /\ Len(filtered_papers) >= 2
    /\ filtered_papers # SelectSeq(by_category,
                                   LAMBDA ref : ref \in Range(filtered_papers))

\* The candidate passes the date window filter_by_date applied, the category
\* allow-list and the minimum score.
Qualifies(ref) ==
    /\ DatedIn(heap[ref], DateCutoff..LastDay)
    /\ SharesCategory(heap[ref], config.categories)
    /\ Score(ref) >= kw.minimum_match_score

Qualifying == {ref \in Range(papers) : Qualifies(ref)}

\* C1: the pipeline returns at most maxCount candidates, all qualifying, with
\* distinct identifiers, in non-increasing order of score; a qualifying
\* candidate is left out only for a selected one with the same identifier and
\* no lower score, or when maxCount candidates of no lower score are selected;
\* and maxCount are returned whenever that many identifiers qualify.
C1_TopMaxCount ==
    pc = "selected" =>
        LET sel == Range(selected_papers) IN
        /\ Len(selected_papers) <= config.max_papers
        /\ sel \subseteq Qualifying
        /\ \A i, j \in DOMAIN selected_papers :
               i # j => heap[selected_papers[i]].id # heap[selected_papers[j]].id
        /\ NonIncreasing(selected_papers)
        /\ \A q \in Qualifying \ sel :
               \/ \E r \in sel : /\ heap[r].id = heap[q].id
                                 /\ Score(r) >= Score(q)
               \/ /\ Len(selected_papers) = config.max_papers
                  /\ \A r \in sel : Score(r) >= Score(q)
        /\ Cardinality({heap[q].id : q \in Qualifying}) >= config.max_papers
               => Len(selected_papers) = config.max_papers

\* Three candidates with distinct identifiers qualified, the two selected are
\* not the first two of the input, and the one left out scores less than the
\* first selected.
C1_Witness ==
    /\ pc = "selected"
    /\ config.max_papers = 2
    /\ Len(selected_papers) = 2
    /\ Cardinality({heap[q].id : q \in Qualifying}) = 3
    /\ selected_papers # <<1, 2>>
    /\ \E q \in Qualifying \ Range(selected_papers) :
           Score(q) < Score(selected_papers[1])

\* The papers of list ps that no earlier paper of ps shares the id of.
FirstOccurrences(ps) ==
    SelectSeq([i \in DOMAIN ps |-> [at |-> i, ref |-> ps[i]]],
              LAMBDA e : \A j \in 1..(e.at - 1) :
                             heap[ps[j]].id # heap[e.ref].id)

\* C13: filter_duplicates returns, in input order, exactly the first
\* occurrence of each identifier of its input: no two returned papers share
\* an id, every id of the input is returned, and a later paper with a seen
\* id is dropped whatever its other fields are.
C13_FirstOccurrences ==
    pc = "limit_papers" =>
        /\ unique_papers =
               [i \in DOMAIN FirstOccurrences(filtered_papers) |->
                   FirstOccurrences(filtered_papers)[i].ref]
        /\ \A i, j \in DOMAIN unique_papers :
               i # j => heap[unique_papers[i]].id # heap[unique_papers[j]].id
        /\ { heap[r].id : r \in Range(filtered_papers) }
               = { heap[r].id : r \in Range(unique_papers) }

\* The input held two ids, one of them on a first paper and on a later paper
\* with another title, and the later one was dropped.
C13_Witness ==
    /\ pc = "limit_papers"
    /\ Len(unique_papers) = 2
    /\ \E i, j \in DOMAIN filtered_papers :
           /\ i < j
           /\ heap[filtered_papers[i]].id = heap[filtered_papers[j]].id
           /\ heap[filtered_papers[i]].title # heap[filtered_papers[j]].title
           /\ filtered_papers[j] \notin Range(unique_papers)

\* C14: filter_duplicates is idempotent: applied to its own output it
\* returns that output, element for element.
C14_Idempotent ==
    pc = "limit_papers" =>
        LET again == filter_duplicates(unique_papers, heap) IN
            /\ again.raised = "none"
            /\ again.ret = unique_papers
            /\ again.heap = heap

\* The first application dropped two papers of a list of three.
C14_Witness ==
    /\ pc = "limit_papers"
    /\ Len(filtered_papers) = 3
    /\ Len(unique_papers) = 1
    /\ filter_duplicates(unique_papers, heap).ret = unique_papers

\* The order of the selection stages: the statement a run is at, and the one
\* it is at next.
StageOrder ==
    { <<"get_recent_papers", "filter_by_date">>,
      <<"filter_by_date", "filter_by_category">>,
      <<"filter_by_category", "filter_papers_by_keywords">>,
      <<"filter_papers_by_keywords", "filter_duplicates">>,
      <<"filter_duplicates", "limit_papers">>,
      <<"limit_papers", "selected">> }

\* C15: in every run the selection stages execute exactly once each, in the
\* order filter_by_date, filter_by_category, filter_papers_by_keywords,
\* filter_duplicates, limit_papers; each stage is applied to the list the
\* stage before it returned, and limit_papers is the last of them.  (The
\* statements follow each other in one order and a run is never anywhere but
\* at one of them or past the last, so that it executes each of them once.)
C15_StageOrder ==
    /\ [][/\ pc' # pc => <<pc, pc'>> \in StageOrder
          /\ pc = "filter_by_date" =>
                 \E today \in {now.day, now.day + 1} :
                     by_date' = filter_by_date(papers, heap,
                                               config.recent_days, today).ret
          /\ pc = "filter_by_category" =>
                 by_category' = filter_by_category(by_date, heap,
                                                   config.categories).ret
          /\ pc = "filter_papers_by_keywords" =>
                 filtered_papers' =
                     filter_papers_by_keywords(by_category, heap, kw).ret
          /\ pc = "filter_duplicates" =>
                 unique_papers' = filter_duplicates(filtered_papers, heap).ret
          /\ pc = "limit_papers" =>
                 selected_papers' =
                     limit_papers(unique_papers, config.max_papers).ret
          /\ pc \notin {"filter_by_date", "get_recent_papers"} =>
                 by_date' = by_date
          /\ pc # "filter_by_category" => by_category' = by_category
          /\ pc # "filter_papers_by_keywords" =>
                 filtered_papers' = filtered_papers
          /\ pc # "filter_duplicates" => unique_papers' = unique_papers
          /\ pc # "limit_papers" => selected_papers' = selected_papers]_vars
    /\ [](pc \in { e[1] : e \in StageOrder } \cup {"selected"})

\* A run is past limit_papers, the deduplication dropped a paper of the
\* list the keyword stage returned, and the truncation dropped another.
C15_Witness ==
    /\ pc = "selected"
    /\ Len(by_category) = 3
    /\ Len(filtered_papers) > Len(unique_papers)
    /\ Len(unique_papers) > Len(selected_papers)
    /\ selected_papers # <<>>
    /\ papers # filtered_papers

----------------------------------------------------------------------------
(* Claims about startup and steps 8 to 13, checked under SpecReport.       *)

Analyzing == pc = "selected" /\ index <= Len(selected_papers)

\* C17: a failed download of a selected paper's PDF comes back from
\* get_pdf_content as the empty content, never as an exception; the paper is
\* then analysed from its abstract, and once that analysis has returned the
\* loop goes on with the next paper and the report holds the paper with the
\* abstract-based analysis.
C17_FetchFailureFallsBack ==
    /\ [][Analyzing =>
             /\ Len(pdf_data') = Len(pdf_data) + 1
             /\ raised' \notin { r.exc : r \in Responses } \ {"none"}
             /\ (pdf_data'[index] = <<>> /\ raised' = "none") =>
                    /\ heap'[selected_papers[index]].analysis.by
                           = "analyze_paper_from_abstract"
                    /\ pc' = "selected"
                    /\ index' = index + 1
                    /\ selected_papers' = selected_papers]_vars
    /\ [](markdown_report # None =>
             /\ Len(markdown_report.sections) = Len(selected_papers)
             /\ \A i \in DOMAIN selected_papers :
                    /\ markdown_report.sections[i].id
                           = heap[selected_papers[i]].id
                    /\ markdown_report.sections[i].analysis.by
                           = IF pdf_data[i] = <<>>
                             THEN "analyze_paper_from_abstract"
                             ELSE "analyze_paper_from_pdf")

\* The run ended with a saved report on two papers: the PDF of the first
\* was unavailable, the PDF of the second was fetched.
C17_Witness ==
    /\ pc = "done"
    /\ Len(selected_papers) = 2
    /\ pdf_data[1] = <<>>
    /\ pdf_data[2] # <<>>
    /\ "report.md" \in DOMAIN files
    /\ files["report.md"].sections[1].analysis.by
           = "analyze_paper_from_abstract"

\* C18: a failure of the language-model call for a selected paper never
\* ends the run: no run stops on the exception of that call.
C18_AnalysisFailureTolerated ==
    ~(pc = "crashed" /\ raised \in Outcomes /\ index <= Len(selected_papers))

\* A required configuration key is missing, or the credential of an enabled
\* collaborator is.
Misconfigured ==
    \/ {"recent_days", "categories", "max_papers", "output_format",
         "enabled"} \ DOMAIN config # {}
    \/ "GOOGLE_API_KEY" \notin env
    \/ /\ "enabled" \in DOMAIN config
       /\ config.enabled
       /\ ~args.no_email
       /\ ~(EmailCredentials \subseteq env)

\* C19: a run with a missing required configuration key, or a missing
\* credential of an enabled collaborator, ends at startup: it never gets to
\* fetch, filter or analyse a paper.
C19_FailFast ==
    Misconfigured => pc \in {"startup", "crashed"} /\ heap = <<>>

\* C20: the report file is written before an email is sent; the step that
\* sends leaves the files as they are and ends the run without an
\* exception, and a send that delivered nothing returned False.
C20_ReportSurvivesDelivery ==
    /\ [][pc = "send_report_notification" =>
             /\ "report.md" \in DOMAIN files
             /\ files["report.md"] = markdown_report
             /\ files' = files
             /\ raised' = "none"
             /\ pc' = "done"
             /\ (~args.no_email /\ config.enabled) =>
                    /\ sent' \in {Bool(TRUE), Bool(FALSE)}
                    /\ sent' = Bool(TRUE) <=> outbox' # outbox]_vars
    /\ [](outbox # <<>> \/ sent # None =>
             /\ "report.md" \in DOMAIN files
             /\ files["report.md"] = markdown_report)

\* The run ended, the notifier was enabled with its credentials, the SMTP
\* server took no message, False was returned and the report is on disk.
C20_Witness ==
    /\ pc = "done"
    /\ raised = "none"
    /\ enabled /\ ~args.no_email
    /\ sent = Bool(FALSE)
    /\ outbox = <<>>
    /\ selected_papers # <<>>
    /\ "report.md" \in DOMAIN files
    /\ files["report.md"] = markdown_report

\* The fields of a candidate.
CandidateFields ==
    {"id", "title", "authors", "abstract", "published_date", "categories"}

\* C21: get_recent_papers never raises to its caller: when the arXiv API
\* fails or yields nothing it returns the empty list, and every paper it
\* returns carries identifier, title, authors, abstract, publication date
\* and categories.
C21_SourceFailureIsEmpty ==
    [][pc = "get_recent_papers" =>
          /\ raised' = "none"
          /\ pc' = "filter_by_date"
          /\ (results = <<>> \/ SourceFailure \in Range(results))
                 => papers' = <<>>
          /\ \A r \in Range(papers') :
                 CandidateFields \subseteq DOMAIN heap'[r]]_vars

----------------------------------------------------------------------------
(* Harness of the selection stages: steps 3 to 7 of the run on a list of   *)
(* candidates whose records may lack a field.                              *)

MaxStageInput == 3

\* The keys the selection stages read with a subscript or with get.
StageKeys == {"id", "title", "abstract", "authors", "categories"}

StagePapers ==
    LET full == { Paper(id, t.title, <<>>, t.summary, strftime(Today),
                        <<"cs.RO">>) :
                  id \in Identifiers, t \in {BestText, FairText} }
        poor == Paper("2501.00002v1", PoorText.title, <<>>, PoorText.summary,
                      strftime(Today), <<"cs.RO">>)
        best == Paper("2501.00001v1", BestText.title, <<>>, BestText.summary,
                      strftime(Today), <<"cs.RO">>)
    IN  full \cup {poor} \cup { Without(best, k) : k \in StageKeys }

\* keywords.json with and without preferred authors.
StageTaxonomies ==
    { RunTaxonomy,
      [RunTaxonomy EXCEPT !.author_preferences = << <<"a">> >>] }

InitStages ==
    /\ pc = "filter_by_category"
    /\ now = [day |-> Today, tod |-> 0]
    /\ config \in RunConfigs
    /\ kw \in StageTaxonomies
    /\ results = <<>>
    /\ heap \in SeqsUpTo(StagePapers, MaxStageInput)
    /\ papers = Refs(heap)
    /\ by_date = Refs(heap)
    /\ by_category = <<>> /\ filtered_papers = <<>>
    /\ unique_papers = <<>> /\ selected_papers = <<>>
    /\ match = NoMatch
    /\ raised = "none"
    /\ OthersInit

NextStages ==
    \/ FilterByCategory
    \/ FilterPapersByKeywords
    \/ FilterDuplicates
    \/ LimitPapers

SpecStages == InitStages /\ [][NextStages]_vars

----------------------------------------------------------------------------
(* Claims about the selection stages, checked under SpecStages.            *)

\* A record that has the fields a candidate requires.
WellFormed(paper) ==
    {"id", "title", "abstract", "authors"} \subseteq DOMAIN paper

WellFormedOf(ps, h) == SelectSeq(ps, LAMBDA r : WellFormed(h[r]))

\* C22: a record lacking identifier, title, abstract or author list never
\* aborts the run: no selection stage raises, each stage returns for the
\* well-formed records what it returns when given them alone, and no
\* malformed record is left after deduplication.
C22_MalformedExcluded ==
    /\ [][pc = "filter_by_category" =>
            /\ raised' = "none"
            /\ WellFormedOf(by_category', heap')
                   = filter_by_category(WellFormedOf(by_date, heap), heap,
                                        config.categories).ret]_vars
    /\ [][pc = "filter_papers_by_keywords" =>
            /\ raised' = "none"
            /\ WellFormedOf(filtered_papers', heap')
                   = filter_papers_by_keywords(
                         WellFormedOf(by_category, heap), heap, kw).ret]_vars
    /\ [][pc = "filter_duplicates" =>
            /\ raised' = "none"
            /\ unique_papers'
                   = filter_duplicates(WellFormedOf(filtered_papers, heap),
                                       heap).ret]_vars

\* C23: the scoring, deduplication and truncation stages leave the list they
\* are given and every record in it as they were: a paper handed to
\* filter_papers_by_keywords has the same fields and values after the call.
C23_CopyOnTransform ==
    /\ [][(/\ pc = "filter_papers_by_keywords"
            /\ WellFormedOf(by_category, heap) = by_category) =>
            by_category' = by_category /\ heap' = heap]_vars
    /\ [][pc = "filter_duplicates" =>
            filtered_papers' = filtered_papers /\ heap' = heap]_vars
    /\ [][pc = "limit_papers" =>
            unique_papers' = unique_papers /\ heap' = heap]_vars

\* The place of a record in a list that holds it once.
PositionIn(ps, ref) == CHOOSE i \in DOMAIN ps : ps[i] = ref

\* ps holds, in the order of the list input, the records of ps that have
\* the same score.
TiesInOrderOf(ps, input, h) ==
    \A i, j \in DOMAIN ps :
        (i < j /\ h[ps[i]].match_score = h[ps[j]].match_score)
            => PositionIn(input, ps[i]) < PositionIn(input, ps[j])

\* C24: two papers that filter_papers_by_keywords retains with the same
\* score are returned in the order they had in its input, and of the papers
\* with the same score truncation keeps those that came first in that
\* input.
C24_TiesByInputOrder ==
    /\ [][(pc = "filter_papers_by_keywords" /\ raised' = "none") =>
            TiesInOrderOf(filtered_papers', by_category, heap')]_vars
    /\ [][(pc = "limit_papers" /\ raised' = "none") =>
            \A kept \in Range(selected_papers'),
               cut \in Range(unique_papers) \ Range(selected_papers') :
                heap[kept].match_score = heap[cut].match_score
                    => PositionIn(by_category, kept)
                           < PositionIn(by_category, cut)]_vars

\* Three papers were scored, the first and the third with the same score and
\* the second with a higher one: the sort moved the second to the front and
\* left the other two in their order.
C24_Witness ==
    /\ pc = "filter_duplicates"
    /\ by_category = <<1, 2, 3>>
    /\ filtered_papers = <<2, 1, 3>>
    /\ heap[1].match_score = heap[3].match_score
    /\ heap[1].id # heap[3].id

----------------------------------------------------------------------------
(* Claims about the analysis loop, checked under SpecReport.               *)

\* C25: the analysis loop takes the selected papers one at a time in the
\* order of the selection: an iteration fetches the PDF of the paper at the
\* loop's position once and stores one analysis on that paper, from the PDF
\* iff content was returned and from the abstract otherwise, and touches no
\* other paper; the papers before the position are the analysed ones; and
\* the report lists the papers in the order of the selection.
C25_OneAtATimeInOrder ==
    /\ [][Analyzing =>
             LET ref == selected_papers[index] IN
             /\ Len(pdf_data') = Len(pdf_data) + 1
             /\ \A o \in DOMAIN heap : o # ref => heap'[o] = heap[o]
             /\ selected_papers' = selected_papers
             /\ IF raised' = "none"
                THEN /\ index' = index + 1
                     /\ heap'[ref].analysis
                            = [by |-> IF pdf_data'[index] # <<>>
                                      THEN "analyze_paper_from_pdf"
                                      ELSE "analyze_paper_from_abstract",
                               id |-> heap[ref].id]
                ELSE /\ pc' = "crashed"
                     /\ "analysis" \notin DOMAIN heap'[ref]]_vars
    /\ [](/\ Len(pdf_data) \in {index - 1, index}
          /\ \A i \in DOMAIN selected_papers :
                 "analysis" \in DOMAIN heap[selected_papers[i]] <=> i < index)
    /\ [](markdown_report # None =>
             /\ index = Len(selected_papers) + 1
             /\ markdown_report.contents
                    = [i \in DOMAIN selected_papers |->
                          heap[selected_papers[i]].id]
             /\ [i \in DOMAIN markdown_report.sections |->
                    markdown_report.sections[i].id]
                    = markdown_report.contents)

\* The report on two selected papers was generated: the first was analysed
\* from its PDF, the second from its abstract.
C25_Witness ==
    /\ pc = "save_report"
    /\ Len(selected_papers) = 2
    /\ Len(markdown_report.contents) = 2
    /\ heap[selected_papers[1]].analysis.by = "analyze_paper_from_pdf"
    /\ heap[selected_papers[2]].analysis.by = "analyze_paper_from_abstract"

============================================================================
